---- MODULE Spec2Model ----
(***************************************************************************)
(* Model of certbot_dns_metaname: the JSON-RPC client MetanameApiClient    *)
(* and the certbot Authenticator that creates and removes the ACME TXT     *)
(* record through it.                                                      *)
(*                                                                         *)
(* Python values that can meet values of another type (JSON values, the    *)
(* elements of params, the argument of base_domain_name_guesses) are       *)
(* tagged records [t |-> type, v |-> value].  A Python str is a sequence   *)
(* of tokens, each token a DNS label or the character ".", so that strip,  *)
(* split, join and the f-string of _perform are computed, not assumed.     *)
(***************************************************************************)
EXTENDS Integers, Sequences, FiniteSets, TLC

\* ------------------------------------------------------------------ bounds

\* The request_id counter is a Python int (unbounded); the model stops
\* issuing calls once it has reached MaxRequestId.
MaxRequestId == 3

\* ----------------------------------------------------------- Python values

PyStr(s) == [t |-> "str", v |-> s]
PyInt(n) == [t |-> "int", v |-> n]
PyList(l) == [t |-> "list", v |-> l]
PyDict(d) == [t |-> "dict", v |-> d]
PyNone == [t |-> "None", v |-> 0]

Dot == "."

\* str.strip("."): leading and trailing "." characters removed
RECURSIVE lstrip(_)
lstrip(s) == IF s # <<>> /\ Head(s) = Dot THEN lstrip(Tail(s)) ELSE s

RECURSIVE rstrip(_)
rstrip(s) ==
    IF s # <<>> /\ s[Len(s)] = Dot THEN rstrip(SubSeq(s, 1, Len(s) - 1)) ELSE s

strip(s) == rstrip(lstrip(s))

\* index of the first "." of s, 0 when there is none
FirstDot(s) ==
    IF \E i \in 1..Len(s) : s[i] = Dot
    THEN CHOOSE i \in 1..Len(s) : s[i] = Dot /\ \A j \in 1..(i - 1) : s[j] # Dot
    ELSE 0

\* str.split(".", maxsplit): the list of the pieces (maxsplit -1: no limit)
RECURSIVE split(_, _)
split(s, maxsplit) ==
    LET i == FirstDot(s)
    IN  IF maxsplit = 0 \/ i = 0
        THEN <<s>>
        ELSE <<SubSeq(s, 1, i - 1)>> \o split(SubSeq(s, i + 1, Len(s)), maxsplit - 1)

\* ".".join(fragments)
RECURSIVE join(_)
join(fragments) ==
    IF fragments = <<>> THEN <<>>
    ELSE IF Len(fragments) = 1 THEN fragments[1]
    ELSE fragments[1] \o <<Dot>> \o join(Tail(fragments))

\* ------------------------------------------------------- results of a call

\* A call either returns a value or raises.  exc is the exception class, msg
\* the fixed text its message starts with, data the value interpolated into
\* the message, cause the msg of the exception it was raised from.
Return(value) ==
    [kind |-> "return", exc |-> "", msg |-> "", data |-> PyNone, cause |-> "",
     value |-> value]

Raise(exc, msg, data, cause) ==
    [kind |-> "raise", exc |-> exc, msg |-> msg, data |-> data, cause |-> cause,
     value |-> PyNone]

NoCall ==
    [kind |-> "none", exc |-> "", msg |-> "", data |-> PyNone, cause |-> "",
     value |-> PyNone]

\* The message texts of the source.
MsgNonJson == "Metaname API didn't return a JSON response"
MsgCallFailed == "Metaname API call failed"
MsgOutOfSequence == "Metaname API returned out of sequence response"
MsgApiError == "Metaname API error"
MsgInvalidResponse == "Metaname API returned an invalid response"
MsgNoCredentials == "API credentials for a Metaname account must be configured before using this plugin."
MsgNoZone == "Unable to find any Metaname zone for"
MsgCreateFailed == "Unable to create an acme-challenge record in the zone"
MsgNotCreated == "Cannot clean up DNS because the record hasn't been created yet"
MsgDeleteFailed == "Unable to delete the acme-challenge record in the zone"

\* ------------------------------------------------------ MetanameApiClient

minimum_ttl == 60

\* self.auth_params: (account_reference, api_key)
auth_params == <<PyStr(<<"test_account_reference">>), PyStr(<<"test_api_key">>)>>

\* BuildPayload with the id left at the counter's initial value
BuildPayload_initial_id(rid, method, params) ==
    [jsonrpc |-> "2.0", id |-> 0, method |-> method, params |-> auth_params \o params]

\* The JSON body handed to session.post: the skeleton {"jsonrpc": "2.0"},
\* the current request_id, the method, and the auth parameters followed by
\* the caller's params.
BuildPayload(rid, method, params) ==
    [jsonrpc |-> "2.0", id |-> rid, method |-> method, params |-> auth_params \o params]

\* What the network and the server do with one POST.  net: the exchange
\* completes ("ok") or session.post raises; body: what the HTTP body holds
\* (a JSON object, another JSON value, or text that is no JSON); for a JSON
\* object: which id it carries and whether it has "result" and "error".
Server(net, body, idmode, has_result, result, has_error) ==
    [net |-> net, body |-> body, idmode |-> idmode, has_result |-> has_result,
     result |-> result, has_error |-> has_error]

ErrorPayload == PyDict([message |-> PyStr(<<"Invalid domain name">>), code |-> PyInt(-4)])

ResultValues == {PyStr(<<"record_reference">>), PyDict(<<>>), PyNone}

IdModes == {"echo", "next", "invalid", "null", "absent"}

ConnectionFailure == Server("ConnectionError", "object", "echo", FALSE, PyNone, FALSE)
TimeoutFailure == Server("Timeout", "object", "echo", FALSE, PyNone, FALSE)
HtmlBody == Server("ok", "html", "echo", FALSE, PyNone, FALSE)
ArrayBody == Server("ok", "array", "echo", FALSE, PyNone, FALSE)

ObjectServers ==
    { Server("ok", "object", m, hr, r, he) :
        m \in IdModes, hr \in BOOLEAN, r \in ResultValues, he \in BOOLEAN }

\* has_result = FALSE makes result irrelevant: keep one representative
Servers ==
    {ConnectionFailure, TimeoutFailure, HtmlBody, ArrayBody}
    \cup {s \in ObjectServers : s.has_result \/ s.result = PyNone}

\* The decoded JSON object the server answers with: a dict whose keys are
\* those the server chose to include.
Respond(payload, server) ==
    LET keys == {"jsonrpc"}
                \cup (IF server.idmode = "absent" THEN {} ELSE {"id"})
                \cup (IF server.has_result THEN {"result"} ELSE {})
                \cup (IF server.has_error THEN {"error"} ELSE {})
        idval == CASE server.idmode = "echo" -> PyInt(payload.id)
                   [] server.idmode = "next" -> PyInt(payload.id + 1)
                   [] server.idmode = "invalid" -> PyStr(<<"invalid">>)
                   [] OTHER -> PyNone
    IN  [k \in keys |->
            CASE k = "jsonrpc" -> PyStr(<<"2.0">>)
              [] k = "id" -> idval
              [] k = "result" -> server.result
              [] OTHER -> ErrorPayload]

\* self.session.post(self.endpoint, json=payload).json() with its two
\* except clauses: JSONDecodeError first, any other Exception second.
post_json(payload, server) ==
    IF server.net # "ok"
    THEN Raise("Exception", MsgCallFailed, PyNone, server.net)
    ELSE IF server.body = "html"
    THEN Raise("Exception", MsgNonJson, PyNone, "JSONDecodeError")
    ELSE IF server.body = "array"
    THEN Return(PyList(<<>>))
    ELSE Return(PyDict(Respond(payload, server)))

\* response.get("id", None)
get_id(response) == IF "id" \in DOMAIN response THEN response["id"] ELSE PyNone

\* OutOfSequence that only notices a missing id
OutOfSequence_missing_only(response, rid) == "id" \notin DOMAIN response

\* response.get("id", None) != self.request_id
OutOfSequence(response, rid) == get_id(response) # PyInt(rid)

\* Interpret with the two tests in the other order
Interpret_error_first(response) ==
    IF "error" \in DOMAIN response
    THEN Raise("Exception", MsgApiError, response["error"], "")
    ELSE IF "result" \in DOMAIN response
    THEN Return(response["result"])
    ELSE Raise("Exception", MsgInvalidResponse, PyDict(response), "")

\* the if/elif/else over "result" and "error"
Interpret(response) ==
    IF "result" \in DOMAIN response
    THEN Return(response["result"])
    ELSE IF "error" \in DOMAIN response
    THEN Raise("Exception", MsgApiError, response["error"], "")
    ELSE Raise("Exception", MsgInvalidResponse, PyDict(response), "")

\* the counter after a response that passed the id check
\* a counter that advances by two
NextRequestId_by_two(rid) == rid + 2

NextRequestId(rid) == rid + 1

\* request that counts a response only when it carries a result
request_counts_results(rid, method, params, server) ==
    LET payload == BuildPayload(rid, method, params)
        ex == post_json(payload, server)
    IN  IF ex.kind = "raise"
        THEN [request_id |-> rid, sent |-> <<payload>>, outcome |-> ex]
        ELSE IF ex.value.t # "dict"
        THEN [request_id |-> rid, sent |-> <<payload>>,
              outcome |-> Raise("AttributeError", "object has no attribute 'get'",
                                PyNone, "")]
        ELSE IF OutOfSequence(ex.value.v, rid)
        THEN [request_id |-> rid, sent |-> <<payload>>,
              outcome |-> Raise("Exception", MsgOutOfSequence, ex.value, "")]
        ELSE [request_id |-> IF "result" \in DOMAIN ex.value.v
                             THEN NextRequestId(rid) ELSE rid,
              sent |-> <<payload>>,
              outcome |-> Interpret(ex.value.v)]

\* MetanameApiClient.request on a client whose counter is rid.  The result
\* holds the counter after the call, the payloads posted and the outcome.
request(rid, method, params, server) ==
    LET payload == BuildPayload(rid, method, params)
        ex == post_json(payload, server)
    IN  IF ex.kind = "raise"
        THEN [request_id |-> rid, sent |-> <<payload>>, outcome |-> ex]
        ELSE IF ex.value.t # "dict"
        THEN [request_id |-> rid, sent |-> <<payload>>,
              outcome |-> Raise("AttributeError", "object has no attribute 'get'",
                                PyNone, "")]
        ELSE IF OutOfSequence(ex.value.v, rid)
        THEN [request_id |-> rid, sent |-> <<payload>>,
              outcome |-> Raise("Exception", MsgOutOfSequence, ex.value, "")]
        ELSE [request_id |-> NextRequestId(rid), sent |-> <<payload>>,
              outcome |-> Interpret(ex.value.v)]

\* ----------------------------------------------------------- Authenticator

\* The state of one Authenticator and of the MetanameApiClient it owns:
\*   auth                      "None" until _setup_credentials has run
\*   metaname_client           "None" until _metaname_client has built it
\*   request_id                the counter of that client (0 at construction)
\*   created_record_reference  PyNone, or what create_dns_record returned
\* The operators below take this state as st and give back the state after
\* the call (st), the payloads posted during it (sent) and its outcome.

Authenticator_init ==
    [auth |-> "None", metaname_client |-> "None", request_id |-> 0,
     created_record_reference |-> PyNone]

_setup_credentials(st) == [st EXCEPT !.auth = "credentials"]

\* _txt_record(name, content)
_txt_record(name, content) ==
    PyDict([name |-> PyStr(name), type |-> PyStr(<<"TXT">>), aux |-> PyNone,
            ttl |-> PyInt(minimum_ttl), data |-> PyStr(content)])

\* a _metaname_client that builds a new client on every call
_metaname_client_rebuilds(st) ==
    IF st.auth = "None"
    THEN [st |-> st, outcome |-> Raise("PluginError", MsgNoCredentials, PyNone, "")]
    ELSE [st |-> [st EXCEPT !.metaname_client = "MetanameApiClient", !.request_id = 0],
          outcome |-> Return(PyStr(<<"MetanameApiClient">>))]

\* _metaname_client(): raises without credentials, builds the client on
\* first use (MetanameApiClient.__init__ sets request_id to 0), and returns
\* the one client afterwards.
_metaname_client(st) ==
    IF st.auth = "None"
    THEN [st |-> st, outcome |-> Raise("PluginError", MsgNoCredentials, PyNone, "")]
    ELSE IF st.metaname_client = "None"
    THEN [st |-> [st EXCEPT !.metaname_client = "MetanameApiClient", !.request_id = 0],
          outcome |-> Return(PyStr(<<"MetanameApiClient">>))]
    ELSE [st |-> st, outcome |-> Return(PyStr(<<"MetanameApiClient">>))]

\* hostname.strip(".").split(".", 1)[1:] -- a slice of the list that split
\* returns, hence itself a list: of one str (everything after the first
\* label) or of none (a hostname without a ".").
RemovePrefix(hostname) ==
    LET parts == split(strip(hostname), 1)
    IN  PyList([i \in 1..(Len(parts) - 1) |-> PyStr(parts[i + 1])])

\* certbot's dns_common.base_domain_name_guesses(domain):
\*     fragments = domain.split('.')
\*     return ['.'.join(fragments[i:]) for i in range(0, len(fragments))]
\* so 'foo.example.com' gives ['foo.example.com', 'example.com', 'com'].
\* Only a str has split; on any other argument (a list among them) the
\* call raises AttributeError.
base_domain_name_guesses(domain) ==
    IF domain.t # "str"
    THEN Raise("AttributeError", "object has no attribute 'split'", PyNone, "")
    ELSE LET fragments == split(domain.v, -1)
         IN  Return(PyList([i \in 1..Len(fragments) |->
                              PyStr(join(SubSeq(fragments, i, Len(fragments))))]))

\* What a call that posted one more request r hands back: the client's
\* counter as request left it, the payloads posted so far, and outcome.
After(st, sent, r, outcome) ==
    [st |-> [st EXCEPT !.request_id = r.request_id], sent |-> sent \o r.sent,
     outcome |-> outcome]

\* The for loop over guesses, from guess number i on.  net[k] is what the
\* network does with the k-th request posted during the enclosing call.
\* Any exception of _metaname_client() or of request is swallowed by
\* "except Exception: continue"; the first guess whose request returns is
\* returned.
RECURSIVE GuessLoop(_, _, _, _, _, _)
RECURSIVE GuessProbed(_, _, _, _, _, _, _)
RECURSIVE GuessProbe(_, _, _, _, _, _)

GuessProbed(st, hostname, guesses, i, net, sent, r) ==
    IF r.outcome.kind = "raise"
    THEN GuessLoop([st EXCEPT !.request_id = r.request_id], hostname, guesses, i + 1,
                   net, sent \o r.sent)
    ELSE After(st, sent, r, Return(guesses[i]))

GuessProbe(c, hostname, guesses, i, net, sent) ==
    IF c.outcome.kind = "raise"
    THEN GuessLoop(c.st, hostname, guesses, i + 1, net, sent)
    ELSE GuessProbed(c.st, hostname, guesses, i, net, sent,
                     request(c.st.request_id, "dns_zone", <<guesses[i]>>,
                             net[Len(sent) + 1]))

GuessLoop(st, hostname, guesses, i, net, sent) ==
    IF i > Len(guesses)
    THEN [st |-> st, sent |-> sent,
          outcome |-> Raise("PluginError", MsgNoZone, hostname, "")]
    ELSE GuessProbe(_metaname_client(st), hostname, guesses, i, net, sent)

\* _metaname_domain_name_for_hostname(hostname).  The call of
\* base_domain_name_guesses is outside the try, so what it raises leaves
\* the method.
_metaname_domain_name_for_hostname(st, hostname, net) ==
    LET stripped == RemovePrefix(hostname)
        guesses == base_domain_name_guesses(stripped)
    IN  IF guesses.kind = "raise"
        THEN [st |-> st, sent |-> <<>>, outcome |-> guesses]
        ELSE GuessLoop(st, stripped, guesses.value.v, 1, net, <<>>)

\* the else branch of _perform: the handle is what request returned
StoreReference(res, reference) ==
    [res EXCEPT !.st.created_record_reference = reference]

\* the try of _perform, once request has been called with result r
PerformCreated(st, sent, r, domain) ==
    IF r.outcome.kind = "raise"
    THEN After(st, sent, r, Raise("PluginError", MsgCreateFailed, PyStr(domain),
                                  r.outcome.msg))
    ELSE StoreReference(After(st, sent, r, Return(PyNone)), r.outcome.value)

\* the try of _perform, once self._metaname_client() has been called (c)
PerformCreate(c, sent, domain_name, domain, validation_name, validation, server) ==
    IF c.outcome.kind = "raise"
    THEN [st |-> c.st, sent |-> sent,
          outcome |-> Raise("PluginError", MsgCreateFailed, PyStr(domain), c.outcome.msg)]
    ELSE PerformCreated(c.st, sent,
             request(c.st.request_id, "create_dns_record",
                     <<domain_name, _txt_record(validation_name \o <<Dot>>, validation)>>,
                     server),
             domain)

\* a _perform that stored a handle before the zone lookup, and so keeps it
\* when the lookup raises
PerformInZone_stores_first(z, domain, validation_name, validation, net) ==
    IF z.outcome.kind = "raise"
    THEN StoreReference(z, PyStr(validation))
    ELSE PerformCreate(_metaname_client(z.st), z.sent, z.outcome.value, domain,
                       validation_name, validation, net[Len(z.sent) + 1])

\* _perform after the zone lookup z: what the lookup raises leaves _perform
\* as it is (the lookup is outside the try)
PerformInZone(z, domain, validation_name, validation, net) ==
    IF z.outcome.kind = "raise"
    THEN z
    ELSE PerformCreate(_metaname_client(z.st), z.sent, z.outcome.value, domain,
                       validation_name, validation, net[Len(z.sent) + 1])

\* _perform(domain, validation_name, validation)
_perform(st, domain, validation_name, validation, net) ==
    PerformInZone(_metaname_domain_name_for_hostname(st, validation_name, net),
                  domain, validation_name, validation, net)

\* the else branch of _cleanup: the handle is forgotten
ClearReference(res) == [res EXCEPT !.st.created_record_reference = PyNone]

\* the try of _cleanup, once request has been called with result r
CleanupDeleted(st, sent, r, domain) ==
    IF r.outcome.kind = "raise"
    THEN After(st, sent, r, Raise("PluginError", MsgDeleteFailed, PyStr(domain),
                                  r.outcome.msg))
    ELSE ClearReference(After(st, sent, r, Return(PyNone)))

\* the try of _cleanup, once self._metaname_client() has been called (c)
CleanupDelete(c, sent, domain_name, domain, server) ==
    IF c.outcome.kind = "raise"
    THEN [st |-> c.st, sent |-> sent,
          outcome |-> Raise("PluginError", MsgDeleteFailed, PyStr(domain), c.outcome.msg)]
    ELSE CleanupDeleted(c.st, sent,
             request(c.st.request_id, "delete_dns_record",
                     <<domain_name, c.st.created_record_reference>>, server),
             domain)

\* _cleanup after the zone lookup z
CleanupInZone(z, domain, net) ==
    IF z.outcome.kind = "raise"
    THEN z
    ELSE CleanupDelete(_metaname_client(z.st), z.sent, z.outcome.value, domain,
                       net[Len(z.sent) + 1])

\* a _cleanup without the check of lines 201-204
_cleanup_unchecked(st, domain, validation_name, validation, net) ==
    CleanupInZone(_metaname_domain_name_for_hostname(st, validation_name, net),
                  domain, net)

\* _cleanup(domain, validation_name, validation)
_cleanup(st, domain, validation_name, validation, net) ==
    IF st.created_record_reference = PyNone
    THEN [st |-> st, sent |-> <<>>,
          outcome |-> Raise("PluginError", MsgNotCreated, PyNone, "")]
    ELSE CleanupInZone(_metaname_domain_name_for_hostname(st, validation_name, net),
                       domain, net)

\* ------------------------------------------------------------ the inputs

ExampleCom == <<"example", Dot, "com">>

\* validation hostnames, as certbot hands them to _perform and _cleanup
HostSomething == <<"_acme-challenge", Dot, "something">> \o <<Dot>> \o ExampleCom
HostTest == <<"_acme-challenge", Dot, "test">> \o <<Dot>> \o ExampleCom
HostApex == <<"_acme-challenge", Dot>> \o ExampleCom

\* the names the zone lookup is called with directly, and those that
\* _perform and _cleanup are called with
LookupHostnames == {HostSomething, HostApex}
Hostnames == {HostTest, HostApex}
Domains == {ExampleCom}
Validations == {<<"test_validation">>}

\* direct calls of MetanameApiClient.request
Calls ==
    { [method |-> "dns_zone", params |-> <<PyStr(ExampleCom)>>],
      [method |-> "create_dns_record",
       params |-> <<PyStr(ExampleCom), _txt_record(HostTest \o <<Dot>>, <<"test_validation">>)>>],
      [method |-> "delete_dns_record",
       params |-> <<PyStr(ExampleCom), PyStr(<<"record_reference">>)>>] }

\* what the network may do with a request posted by _perform, _cleanup or
\* the zone lookup: answer with a result, answer with an error, or fail
Accepts == Server("ok", "object", "echo", TRUE, PyStr(<<"record_reference">>), FALSE)
Rejects == Server("ok", "object", "echo", FALSE, PyNone, TRUE)

AuthServers == {Accepts, Rejects, ConnectionFailure}

\* One exchange for every request a call on hostname can post: a probe for
\* each suffix of the name after its first label, and the create or delete.
Nets(hostname) == [1..Len(split(hostname, -1)) -> AuthServers]

\* ----------------------------------------------------------- state machine

VARIABLES
    auth,                      \* Authenticator.auth
    metaname_client,           \* Authenticator.metaname_client
    request_id,                \* MetanameApiClient.request_id
    created_record_reference,  \* Authenticator.created_record_reference
    last                       \* the last call made: its inputs, the state
                               \* before it, the payloads posted, its outcome

vars == <<auth, metaname_client, request_id, created_record_reference, last>>

State ==
    [auth |-> auth, metaname_client |-> metaname_client, request_id |-> request_id,
     created_record_reference |-> created_record_reference]

SetState(st) ==
    /\ auth' = st.auth
    /\ metaname_client' = st.metaname_client
    /\ request_id' = st.request_id
    /\ created_record_reference' = st.created_record_reference

Called(op, hostname, validation, method, net, sent, outcome) ==
    [op |-> op, hostname |-> hostname, validation |-> validation, method |-> method,
     net |-> net, pre |-> State, sent |-> sent, outcome |-> outcome]

Init ==
    /\ auth = Authenticator_init.auth
    /\ metaname_client = Authenticator_init.metaname_client
    /\ request_id = Authenticator_init.request_id
    /\ created_record_reference = Authenticator_init.created_record_reference
    /\ last = [op |-> "none", hostname |-> <<>>, validation |-> <<>>, method |-> "",
               net |-> <<>>, pre |-> Authenticator_init, sent |-> <<>>,
               outcome |-> NoCall]

\* certbot's perform() runs _setup_credentials() before _perform
DoSetupCredentials ==
    /\ SetState(_setup_credentials(State))
    /\ last' = Called("_setup_credentials", <<>>, <<>>, "", <<>>, <<>>, Return(PyNone))

\* a direct call of _metaname_client()
DoMetanameClient ==
    LET c == _metaname_client(State)
    IN  /\ SetState(c.st)
        /\ last' = Called("_metaname_client", <<>>, <<>>, "", <<>>, <<>>, c.outcome)

\* a direct call of request on the client, once it exists
DoRequest ==
    /\ metaname_client # "None"
    /\ request_id < MaxRequestId
    /\ \E call \in Calls, server \in Servers :
        LET r == request(request_id, call.method, call.params, server)
        IN  /\ SetState([State EXCEPT !.request_id = r.request_id])
            /\ last' = Called("request", <<>>, <<>>, call.method, <<server>>, r.sent,
                              r.outcome)

\* a direct call of _metaname_domain_name_for_hostname
DoFindZone ==
    \E hostname \in LookupHostnames : \E net \in Nets(hostname) :
        LET z == _metaname_domain_name_for_hostname(State, hostname, net)
        IN  /\ z.st.request_id <= MaxRequestId
            /\ SetState(z.st)
            /\ last' = Called("_metaname_domain_name_for_hostname", hostname, <<>>, "",
                              net, z.sent, z.outcome)

DoPerform ==
    \E domain \in Domains, hostname \in Hostnames, validation \in Validations :
      \E net \in Nets(hostname) :
        LET p == _perform(State, domain, hostname, validation, net)
        IN  /\ p.st.request_id <= MaxRequestId
            /\ SetState(p.st)
            /\ last' = Called("_perform", hostname, validation, "", net, p.sent, p.outcome)

DoCleanup ==
    \E domain \in Domains, hostname \in Hostnames, validation \in Validations :
      \E net \in Nets(hostname) :
        LET c == _cleanup(State, domain, hostname, validation, net)
        IN  /\ c.st.request_id <= MaxRequestId
            /\ SetState(c.st)
            /\ last' = Called("_cleanup", hostname, validation, "", net, c.sent, c.outcome)

Next ==
    \/ DoSetupCredentials
    \/ DoMetanameClient
    \/ DoRequest
    \/ DoFindZone
    \/ DoPerform
    \/ DoCleanup

Spec == Init /\ [][Next]_vars

\* ------------------------------------------------------------ the claims

\* The error kinds of the design, told apart in the code by exception class
\* and message text.
IsError(outcome, exc, msg) ==
    outcome.kind = "raise" /\ outcome.exc = exc /\ outcome.msg = msg

TransportErrorNonJson(outcome) == IsError(outcome, "Exception", MsgNonJson)
TransportErrorCallFailed(outcome) == IsError(outcome, "Exception", MsgCallFailed)
ProtocolErrorOutOfSequence(outcome) == IsError(outcome, "Exception", MsgOutOfSequence)
ProtocolErrorInvalidResponse(outcome) == IsError(outcome, "Exception", MsgInvalidResponse)
ApiError(outcome) == IsError(outcome, "Exception", MsgApiError)
ConfigurationError(outcome) == IsError(outcome, "PluginError", MsgNoCredentials)
ZoneNotFoundError(outcome) == IsError(outcome, "PluginError", MsgNoZone)

\* the last call was a direct call of MetanameApiClient.request
RequestCalled == last.op = "request"

\* the server that answered it
Answer == last.net[1]

\* the exchange gave a decoded JSON object
GotObject(server) == server.net = "ok" /\ server.body = "object"

\* ... carrying the id that was sent
InSequence(server) == GotObject(server) /\ server.idmode = "echo"

\* ... and exactly one of result and error
WellFormed(server) == InSequence(server) /\ (server.has_result # server.has_error)

\* C1: every call of request posts one payload whose id is the counter as it
\* was before the call, and after a well-formed response carrying that id
\* the counter is exactly one greater than before.
C1_IdSentIsCounter ==
    RequestCalled =>
        /\ Len(last.sent) = 1
        /\ last.sent[1].id = last.pre.request_id
        /\ WellFormed(Answer) => request_id = last.pre.request_id + 1

C1_Witness ==
    /\ RequestCalled
    /\ WellFormed(Answer)
    /\ last.pre.request_id = 2
    /\ last.sent[1].id = 2
    /\ request_id = 3

\* C2: a response whose id differs from the id sent, or that has no id,
\* makes request fail with the out of sequence error and leaves the counter
\* as it was.
C2_OutOfSequenceKeepsCounter ==
    (RequestCalled /\ GotObject(Answer) /\ Answer.idmode # "echo") =>
        /\ ProtocolErrorOutOfSequence(last.outcome)
        /\ request_id = last.pre.request_id

C2_Witness ==
    /\ RequestCalled
    /\ GotObject(Answer)
    /\ Answer.idmode = "invalid"
    /\ Answer.has_result
    /\ last.pre.request_id = 1
    /\ request_id = 1
    /\ ProtocolErrorOutOfSequence(last.outcome)

\* C3: once the response has passed the id check the counter is one greater
\* after the call, also when the call then fails with the API error or with
\* the invalid response error.
C3_IncrementBeforeInterpreting ==
    (RequestCalled /\ InSequence(Answer)) =>
        /\ request_id = last.pre.request_id + 1
        /\ (~Answer.has_result /\ Answer.has_error) => ApiError(last.outcome)
        /\ (~Answer.has_result /\ ~Answer.has_error) =>
               ProtocolErrorInvalidResponse(last.outcome)

C3_Witness ==
    /\ RequestCalled
    /\ InSequence(Answer)
    /\ ~Answer.has_result
    /\ ApiError(last.outcome) \/ ProtocolErrorInvalidResponse(last.outcome)
    /\ last.pre.request_id = 1
    /\ request_id = 2

\* C4: an in-sequence response is classified by its payload: with "result"
\* the call returns that value unchanged; otherwise with "error" it fails
\* with the API error carrying the error payload; otherwise it fails with
\* the invalid response error.
C4_PayloadClassification ==
    (RequestCalled /\ InSequence(Answer)) =>
        IF Answer.has_result
        THEN last.outcome = Return(Answer.result)
        ELSE IF Answer.has_error
        THEN ApiError(last.outcome) /\ last.outcome.data = ErrorPayload
        ELSE ProtocolErrorInvalidResponse(last.outcome)

C4_Witness ==
    /\ RequestCalled
    /\ InSequence(Answer)
    /\ Answer.has_result
    /\ Answer.has_error
    /\ last.outcome = Return(PyStr(<<"record_reference">>))

\* C5: when the exchange does not give a decoded JSON object the call fails
\* with a transport error and no other error: the non-JSON one when the
\* body is no JSON, the call failed one for every other failure.
C5_TransportErrorOnly ==
    (RequestCalled /\ ~GotObject(Answer)) =>
        /\ TransportErrorNonJson(last.outcome) \/ TransportErrorCallFailed(last.outcome)
        /\ (Answer.net = "ok" /\ Answer.body = "html") =>
               TransportErrorNonJson(last.outcome)
        /\ Answer.net # "ok" => TransportErrorCallFailed(last.outcome)

\* The candidate zones of a validation hostname as the design states them:
\* the first label dropped, then every suffix of what is left that has at
\* least two labels, longest first.
ClaimedCandidates(hostname) ==
    LET rest == Tail(split(strip(hostname), -1))
    IN  [i \in 1..(Len(rest) - 1) |-> PyStr(join(SubSeq(rest, i, Len(rest))))]

\* the zone each posted payload names (the parameter after the two
\* auth parameters)
ProbedZones == [i \in 1..Len(last.sent) |-> last.sent[i].params[3]]

LookupCalled == last.op = "_metaname_domain_name_for_hostname"
PerformCalled == last.op = "_perform"
HadCredentials == last.pre.auth # "None"

\* the k-th exchange of the last call is the first one the provider answers
\* with a result
FirstAccepted(k) ==
    /\ k \in DOMAIN last.net
    /\ last.net[k] = Accepts
    /\ \A j \in 1..(k - 1) : last.net[j] # Accepts

\* C6: the zone lookup probes the candidates from the longest suffix to the
\* shortest, returns the first one whose probe gives a result and posts no
\* probe after it.
C6_FirstAcceptedCandidate ==
    (LookupCalled /\ HadCredentials) =>
        \A k \in 1..Len(ClaimedCandidates(last.hostname)) :
            FirstAccepted(k) =>
                /\ last.outcome = Return(ClaimedCandidates(last.hostname)[k])
                /\ ProbedZones = SubSeq(ClaimedCandidates(last.hostname), 1, k)

\* C7: the zone lookup fails with the zone not found error exactly when the
\* probe of every candidate fails, after probing each of them once, and it
\* never returns a zone whose probe failed.
C7_NotFoundWhenAllFail ==
    (LookupCalled /\ HadCredentials) =>
        LET cands == ClaimedCandidates(last.hostname)
        IN  /\ ZoneNotFoundError(last.outcome)
                <=> \A k \in 1..Len(cands) : last.net[k] # Accepts
            /\ ZoneNotFoundError(last.outcome) => ProbedZones = cands
            /\ last.outcome.kind = "return" =>
                   \E k \in 1..Len(cands) :
                       last.outcome.value = cands[k] /\ last.net[k] = Accepts

\* C8: the zones probed for _acme-challenge.L1.....Ln are, in this order,
\* L1.....Ln, L2.....Ln, ..., L(n-1).Ln: all of them when every probe fails,
\* and never the single label Ln.
C8_CandidatesProbed ==
    (LookupCalled /\ HadCredentials) =>
        /\ Len(ProbedZones) <= Len(ClaimedCandidates(last.hostname))
        /\ ProbedZones = SubSeq(ClaimedCandidates(last.hostname), 1, Len(ProbedZones))
        /\ (\A k \in DOMAIN last.net : last.net[k] # Accepts) =>
               ProbedZones = ClaimedCandidates(last.hostname)

\* C9: without credentials _perform fails with the configuration error and
\* posts no request.
C9_PerformNeedsCredentials ==
    (PerformCalled /\ last.pre.auth = "None") =>
        /\ ConfigurationError(last.outcome)
        /\ last.sent = <<>>

\* C10: a _perform whose zone lookup finds zone Z posts, after the probes,
\* exactly one create_dns_record(Z, {name: validation hostname + ".",
\* type: "TXT", aux: null, ttl: 60, data: validation value}), and when that
\* call returns a result the stored handle is the returned value.
C10_CreateInResolvedZone ==
    (PerformCalled /\ HadCredentials) =>
        \A k \in 1..Len(ClaimedCandidates(last.hostname)) :
            FirstAccepted(k) =>
                /\ Len(last.sent) = k + 1
                /\ \A i \in 1..k : last.sent[i].method = "dns_zone"
                /\ last.sent[k + 1].method = "create_dns_record"
                /\ last.sent[k + 1].params =
                       auth_params \o
                       << ClaimedCandidates(last.hostname)[k],
                          PyDict([name |-> PyStr(last.hostname \o <<Dot>>),
                                  type |-> PyStr(<<"TXT">>), aux |-> PyNone,
                                  ttl |-> PyInt(60), data |-> PyStr(last.validation)]) >>
                /\ last.net[k + 1].has_result =>
                       created_record_reference = last.net[k + 1].result

RecordCreationError(outcome) == IsError(outcome, "PluginError", MsgCreateFailed)
RecordDeletionError(outcome) == IsError(outcome, "PluginError", MsgDeleteFailed)
LifecycleError(outcome) == IsError(outcome, "PluginError", MsgNotCreated)

CleanupCalled == last.op = "_cleanup"
Failed == last.outcome.kind = "raise"
NoHandle == last.pre.created_record_reference = PyNone

C12_CleanupWithoutHandle ==
    (CleanupCalled /\ NoHandle) =>
        /\ LifecycleError(last.outcome)
        /\ last.sent = <<>>
        /\ request_id = last.pre.request_id
        /\ State = last.pre

C12_Witness ==
    /\ CleanupCalled /\ NoHandle /\ HadCredentials
    /\ last.pre.metaname_client # "None"
    /\ last.pre.request_id = 2
    /\ \E k \in DOMAIN last.net : last.net[k] = Accepts
    /\ LifecycleError(last.outcome)
    /\ request_id = 2

\* in call c the provider accepts the probe of the k-th candidate zone and of
\* none before it
ZoneFoundAt(c, k) ==
    /\ k \in 1..Len(ClaimedCandidates(c.hostname))
    /\ c.net[k] = Accepts
    /\ \A j \in 1..(k - 1) : c.net[j] # Accepts

\* call c is a _perform with credentials whose k-th probe and whose
\* create_dns_record the provider accepts
PerformAccepted(c, k) ==
    /\ c.op = "_perform"
    /\ c.pre.auth # "None"
    /\ ZoneFoundAt(c, k)
    /\ c.net[k + 1] = Accepts

\* call d is a _cleanup for the hostname of call c
CleanupFollows(c, d) == d.op = "_cleanup" /\ d.hostname = c.hostname

CleanupRefused(c) ==
    \A k \in DOMAIN c.net : ZoneFoundAt(c, k) => c.net[k + 1] # Accepts

ProviderAnswers(c) == \A k \in DOMAIN c.net : c.net[k] \in {Accepts, Rejects}

C17_ClientBuiltOnce ==
    [][ /\ metaname_client # "None" =>
               /\ metaname_client' = metaname_client
               /\ request_id' >= request_id
        /\ (metaname_client = "None" /\ metaname_client' # "None") =>
               /\ auth # "None"
               /\ request_id' = 0
        /\ \A i \in DOMAIN last'.sent :
               /\ metaname_client # "None"
               /\ last'.sent[i].id >= request_id
               /\ i > 1 => last'.sent[i].id >= last'.sent[i - 1].id ]_vars

C17_Witness ==
    /\ last.op = "_metaname_client"
    /\ last.pre.metaname_client # "None"
    /\ last.pre.request_id = 2
    /\ last.outcome.kind = "return"
    /\ metaname_client = last.pre.metaname_client
    /\ request_id = 2

\* C19: request_id changes only in a call of request, only by +1 and exactly
\* when the response is a JSON object carrying the id sent; a transport
\* failure or an out of sequence response leaves it unchanged, and the
\* request call after such a failure sends the same id again.
C19_CounterStepsOnInSequence ==
    [][ /\ request_id' = request_id \/ request_id' = request_id + 1
        /\ request_id' # request_id => last'.op = "request"
        /\ last'.op = "request" =>
               /\ last'.sent[1].id = request_id
               /\ InSequence(last'.net[1]) => request_id' = request_id + 1
               /\ ~InSequence(last'.net[1]) => request_id' = request_id
               /\ (RequestCalled /\ ~InSequence(Answer)) =>
                      last'.sent[1].id = last.sent[1].id ]_vars

C19_Witness ==
    /\ RequestCalled
    /\ Answer.net # "ok"
    /\ last.pre.request_id = 1
    /\ last.sent[1].id = 1
    /\ request_id = 1

====
